---- MODULE Spec2Model ----
(***************************************************************************)
(* Invoice backend: POST /api/invoices (transactional creation with        *)
(* automatic numbering) and the payment-details "single default" writes.   *)
(*                                                                         *)
(* Strings are sequences of character codes (ASCII), so that LIKE, ORDER   *)
(* BY ... DESC, split("-"), parseInt and padStart are computed as the code *)
(* computes them.  Tables are sets of rows; a row written inside an open   *)
(* transaction carries the transaction's id in xid (0 = committed).        *)
(***************************************************************************)
EXTENDS Integers, Sequences, FiniteSets, TLC

\* ------------------------------------------------------------------ bounds
MaxInvoiceId == 2      \* ids the invoices sequence hands out when requests interleave
MaxSeqInvoiceId == 3   \* ... and when they run one after another
NItems == 2            \* length of a request's items array
MaxClock == 2          \* calendar months the clock runs through
MaxPayments == 2       \* rows payment_details grows to when requests interleave
MaxSeqPayments == 3    \* ... and when they run one after another
ConnectionLimit == 1   \* connections of the pool (connectionLimit)
MaxNumCreations == 2   \* creations run against each stored set of numbers

Reqs == {1, 2}          \* request slots (a slot is one in-flight handler + transaction)
Users == {1, 2}         \* req.user.userId
ClientIds == {1, 2}     \* clientId values of a body
BillFromIds == {0, 1, 2}   \* billFromId values of a body, 0 = omitted

\* ----------------------------------------------------------------- strings
IsDigit(ch) == ch >= 48 /\ ch <= 57

RECURSIVE ToStr(_)
ToStr(n) == IF n < 10 THEN <<48 + n>> ELSE ToStr(n \div 10) \o <<48 + (n % 10)>>

RECURSIVE PadStart(_, _, _)
PadStart(s, w, ch) == IF Len(s) >= w THEN s ELSE PadStart(<<ch>> \o s, w, ch)

StartsWith(s, p) == Len(s) >= Len(p) /\ SubSeq(s, 1, Len(p)) = p

RECURSIVE StrLess(_, _)
StrLess(a, b) ==
    IF a = <<>> THEN b # <<>>
    ELSE IF b = <<>> THEN FALSE
    ELSE IF Head(a) # Head(b) THEN Head(a) < Head(b)
    ELSE StrLess(Tail(a), Tail(b))

RECURSIVE LastSegment(_)
LastSegment(s) == IF \A i \in DOMAIN s : s[i] # 45 THEN s ELSE LastSegment(Tail(s))

RECURSIVE DigitsValue(_, _)
DigitsValue(s, acc) ==
    IF s = <<>> \/ ~IsDigit(Head(s)) THEN acc
    ELSE DigitsValue(Tail(s), acc * 10 + (Head(s) - 48))

ParseInt(s) ==
    IF s = <<>> \/ ~IsDigit(Head(s)) THEN [nan |-> TRUE, val |-> 0]
    ELSE [nan |-> FALSE, val |-> DigitsValue(s, 0)]

PlusOne(x) == IF x.nan THEN x ELSE [x EXCEPT !.val = @ + 1]

NumToString(x) == IF x.nan THEN <<78, 97, 78>> ELSE ToStr(x.val)

\* --------------------------------------------------------------- numbering
Year(c) == 2025 + ((c - 1) \div 12)
Month(c) == ((c - 1) % 12) + 1

Prefix(c) ==
    <<73, 78, 86, 45>> \o ToStr(Year(c)) \o <<45>>
        \o PadStart(ToStr(Month(c)), 2, 48) \o <<45>>

\* variant: padStart(3, "0")
PaddedNumberWidth3(x) == PadStart(NumToString(x), 3, 48)

PaddedNumber(x) == PadStart(NumToString(x), 4, 48)

\* variant: the lookup without its LIKE filter
LastInvoiceAnyMonth(nums, c) ==
    IF nums = {} THEN <<>>
    ELSE CHOOSE n \in nums : \A m \in nums : ~StrLess(n, m)

LastInvoice(nums, c) ==
    LET matches == {n \in nums : StartsWith(n, Prefix(c))}
    IN  IF matches = {} THEN <<>>
        ELSE CHOOSE n \in matches : \A m \in matches : ~StrLess(n, m)

\* variant: a generator that never reads the last number
NextNumberAlwaysOne(last) == [nan |-> FALSE, val |-> 1]

NextNumber(last) ==
    IF last = <<>> THEN [nan |-> FALSE, val |-> 1]
    ELSE PlusOne(ParseInt(LastSegment(last)))

GeneratedNumber(nums, c) == Prefix(c) \o PaddedNumber(NextNumber(LastInvoice(nums, c)))

FmtNumber(c, n) == Prefix(c) \o PadStart(ToStr(n), 4, 48)

\* explicit invoiceNumber values of a body: one in the generator's own
\* format, under the prefix of the last month the clock reaches
ExplicitNumbers == {FmtNumber(MaxClock, 2)}
NoNumber == <<>>

\* ------------------------------------------------------------------- state
VARIABLES
    invoices,   \* table invoices: rows [id, user_id, client_id, invoice_number, bill_from_id,
                \* created_at, xid, status, amount_paid, total, notes]
    items,      \* table invoice_items: rows [invoice_id, idx, xid]
    nextId,     \* the invoices id sequence
    clients,    \* table clients: the ids present
    billFroms,  \* table bill_from_addresses: rows [id, user_id]
    now,        \* the clock, in months: 1 is January 2025
    req,        \* per slot: the handler's position, its body and its locals
    sent,       \* the response the last step put on the wire, if it put one
    payments,   \* table payment_details: rows [id, scope, is_default]; scope is
                \* client_id, or user_id in the user-scoped routes
    pdNextId,   \* the payment_details id sequence
    scoping,    \* which payment-details routes are mounted: "client" or "user"
    pd,         \* per slot: a payment-details handler's position and body
    pdSent,     \* the response the last payment-details step sent, if any
    del,        \* per slot: a DELETE /api/clients/:id or /api/bill-from-addresses/:id handler
    delSent,    \* the response the last delete step sent, if any
    pool,       \* connections the mysql pool has free
    tx,         \* per slot: the SQL create handler's connection and transaction
    apiSecure,  \* process.env.API_SECURE ("undefined" when unset)
    mw,         \* a request on its way through the middleware chain
    acc,        \* a single-statement handler on one row: GET, PUT or DELETE /:id
    accSent,    \* the response the last such handler sent, with the rows it carries
    users,      \* table users: rows [id, username, email]
    reg,        \* per slot: a POST /api/users/register handler
    regSent     \* the response the last registration step sent, if any

invVars == <<invoices, items, nextId, clients, billFroms, now, req, sent>>
pdVars == <<payments, pdNextId, scoping, pd, pdSent>>
delVars == <<del, delSent>>
txVars == <<pool, tx>>
mwVars == <<apiSecure, mw>>
accVars == <<acc, accSent>>
regVars == <<users, reg, regSent>>
sideVars == <<txVars, mwVars, accVars, regVars>>
nonInvVars == <<pdVars, delVars, sideVars>>
nonPdVars == <<invVars, delVars, sideVars>>
vars == <<invVars, pdVars, delVars, sideVars>>

NoResp == [code |-> 0, error |-> "none"]
Created == [code |-> 201, error |-> "none"]
DuplicateInvoiceNumber == [code |-> 409, error |-> "Invoice number already exists"]
InvalidClient == [code |-> 400, error |-> "Invalid client"]
InvalidBillFromAddress == [code |-> 400, error |-> "Invalid bill from address"]
CreateFailed == [code |-> 500, error |-> "Failed to create invoice"]

Idle ==
    [pc |-> "idle", user |-> 0, number |-> NoNumber, clientId |-> 0, billFromId |-> 0,
     nItems |-> 0, invNumber |-> NoNumber, id |-> 0, k |-> 0, err |-> "none",
     resp |-> NoResp]

\* res.status(code).json(...) of slot r, whose handler was at q
Response(r, q, resp) == [slot |-> r, q |-> q, resp |-> resp]
NoSent == Response(0, Idle, NoResp)

\* rows a statement of transaction r reads (READ COMMITTED): the committed
\* rows and the transaction's own
Visible(r) == {row \in invoices : row.xid \in {0, r}}
Committed == {row \in invoices : row.xid = 0}
CommittedItems == {it \in items : it.xid = 0}

\* variant: the column declared without unique
NoUniqueConstraint(n) == FALSE

\* invoices.invoice_number UNIQUE: a committed row holding n rejects the insert
UniqueConflict(n) == \E row \in invoices : row.xid = 0 /\ row.invoice_number = n

\* ... and a row another open transaction inserted with n makes the insert wait
UniquePending(n, r) == \E row \in invoices : row.xid \notin {0, r} /\ row.invoice_number = n

\* invoices.client_id REFERENCES clients, bill_from_id REFERENCES bill_from_addresses
ForeignKeyViolation(cid, bid) ==
    cid \notin clients \/ (bid # 0 /\ \A b \in billFroms : b.id # bid)

\* variant: a duplicate lookup whose where clause matches no row
ExistingInvoiceNeverMatches(r) == FALSE

\* findOne({ invoice_number, user_id }, transaction)
ExistingInvoice(r) ==
    \E row \in Visible(r) :
        row.invoice_number = req[r].number /\ row.user_id = req[r].user

\* variant: the client gate left out
ClientFoundUnchecked(cid) == TRUE

\* Client.findByPk(clientId)
ClientFound(cid) == cid \in clients

\* variant: the address lookup without user_id
BillFromFoundAnyUser(bid, u) == \E b \in billFroms : b.id = bid

\* BillFromAddress.findOne({ id: billFromId, user_id })
BillFromFound(bid, u) == \E b \in billFroms : b.id = bid /\ b.user_id = u

\* variant: statements run outside the transaction, so rollback undoes nothing
RollbackKeepsRows(rows, r) == rows

AfterRollback(rows, r) == {row \in rows : row.xid # r}
AfterCommit(rows, r) ==
    {IF row.xid = r THEN [row EXCEPT !.xid = 0] ELSE row : row \in rows}

\* ---------------------------------------------- payment-details requests
PdClientIds == {1, 2, 3}   \* body.clientId

PdCreated == [code |-> 201, error |-> ""]
PdUpdated == [code |-> 200, error |-> ""]
InvalidInvoice == [code |-> 400, error |-> "Invalid invoice"]
PdNotFound == [code |-> 404, error |-> "Payment details not found"]
PdCreateFailed == [code |-> 500, error |-> "Failed to create payment details"]
PdUpdateFailed == [code |-> 500, error |-> "Failed to update payment details"]

\* hadDefault: a row other than params.id was the scope's default when the
\* request arrived (observation only)
PdIdle == [pc |-> "idle", op |-> "none", scope |-> 0, pid |-> 0, isDefault |-> FALSE,
           invoiceId |-> 0, hadDefault |-> FALSE]

\* id: the row the response names (insertId, or params.id)
PdResponse(r, q, resp, id) == [slot |-> r, q |-> q, resp |-> resp, id |-> id]
NoPdSent == PdResponse(0, PdIdle, NoResp, 0)

Defaults(rows, s) == {row.id : row \in {x \in rows : x.scope = s /\ x.is_default}}

\* ------------------------------------- delete requests: clients, addresses
DelReqs == {1}

CannotDeleteClient == [code |-> 400, error |-> "Cannot delete client"]
CannotDeleteAddress == [code |-> 400, error |-> "Cannot delete address"]
ClientNotFound == [code |-> 404, error |-> "Client not found"]
AddressNotFound == [code |-> 404, error |-> "Bill from address not found"]
Deleted == [code |-> 200, error |-> ""]
DeleteClientFailed == [code |-> 500, error |-> "Failed to delete client"]
DeleteAddressFailed == [code |-> 500, error |-> "Failed to delete bill from address"]

DelIdle == [pc |-> "idle", kind |-> "none", id |-> 0, user |-> 0]
DelResponse(r, q, resp) == [slot |-> r, q |-> q, resp |-> resp]
NoDelSent == DelResponse(0, DelIdle, NoResp)

\* ------------- POST /api/invoices (SQL): the connection and its transaction
\* state: the transaction as the statements that succeeded left it;
\* released: calls of connection.release(); resp: the status sent, 0 if none
TxIdle == [pc |-> "idle", gate |-> "none", state |-> "none", opened |-> FALSE,
           released |-> 0, resp |-> 0]

\* route: "protected" (router.use(authenticateToken)) or "public" (register,
\* login); validated: the route has validateRequest(schema); header: the
\* words of the Authorization header; warned: bypass warnings logged
MwIdle == [stage |-> "idle", route |-> "none", validated |-> FALSE, header |-> <<>>,
           payloadValid |-> TRUE, user |-> 0, warned |-> 0, ran |-> FALSE, resp |-> NoResp]

\* the body of a request that has none
NoBody == [status |-> "none", amountPaid |-> 0, notes |-> "omitted"]

\* table, op, id: the route; user: req.user.userId; body: req.body of
\* PUT /api/invoices/:id/status
AccIdle ==
    [pc |-> "idle", table |-> "none", op |-> "none", id |-> 0, user |-> 0, body |-> NoBody]

\* rows: the rows the response carries, or the rows the statement changed
AccResponse(q, resp, rows) == [q |-> q, resp |-> resp, rows |-> rows]
NoAccSent == AccResponse(AccIdle, NoResp, {})

RegIdle == [pc |-> "idle", username |-> 0, email |-> 0]
RegResponse(r, q, resp) == [slot |-> r, q |-> q, resp |-> resp]
NoRegSent == RegResponse(0, RegIdle, NoResp)

IdleInit ==
    /\ pool = ConnectionLimit
    /\ tx = [r \in Reqs |-> TxIdle]
    /\ mw = MwIdle
    /\ acc = AccIdle
    /\ accSent = NoAccSent
    /\ users = {}
    /\ reg = [r \in Reqs |-> RegIdle]
    /\ regSent = NoRegSent

SideInit == IdleInit /\ apiSecure = "undefined"

StoreInit ==
    /\ invoices = {}
    /\ items = {}
    /\ nextId = 1
    /\ clients = {1}
    /\ billFroms = {[id |-> 1, user_id |-> 1]}
    /\ now = 1
    /\ req = [r \in Reqs |-> Idle]
    /\ sent = NoSent
    /\ payments = {}
    /\ pdNextId = 1
    /\ scoping = "client"
    /\ pd = [r \in Reqs |-> PdIdle]
    /\ pdSent = NoPdSent
    /\ del = [r \in DelReqs |-> DelIdle]
    /\ delSent = NoDelSent

Init == StoreInit /\ SideInit

\* requests that have not yet used up their value of the id sequence
AwaitingId == {q \in Reqs : req[q].pc \in {"dup", "client", "billfrom", "hook", "insert"}}

\* ------------------------------------------------- POST /api/invoices (ORM)
\* the request arrives and the transaction is opened
Receive(r, budget) ==
    /\ req[r].pc = "idle"
    /\ nextId + Cardinality(AwaitingId) <= budget
    /\ \E u \in Users, n \in ExplicitNumbers \cup {NoNumber}, cid \in ClientIds,
          bid \in BillFromIds :
          req' = [req EXCEPT ![r] =
                    [Idle EXCEPT !.pc = IF n # NoNumber THEN "dup" ELSE "client",
                                 !.user = u, !.number = n, !.clientId = cid,
                                 !.billFromId = bid, !.nItems = NItems]]
    /\ sent' = NoSent
    /\ UNCHANGED <<invoices, items, nextId, clients, billFroms, now, nonInvVars>>

\* after the three gates: Invoice.create runs the hook's query only when
\* invoice_number is empty
ToCreate(q) ==
    IF q.number = NoNumber THEN [q EXCEPT !.pc = "hook"]
    ELSE [q EXCEPT !.pc = "insert", !.invNumber = q.number]

DupCheck(r) ==
    /\ req[r].pc = "dup"
    /\ req' = [req EXCEPT ![r] =
                 IF ExistingInvoice(r)
                 THEN [@ EXCEPT !.pc = "rollback", !.resp = DuplicateInvoiceNumber]
                 ELSE [@ EXCEPT !.pc = "client"]]
    /\ sent' = NoSent
    /\ UNCHANGED <<invoices, items, nextId, clients, billFroms, now, nonInvVars>>

ClientCheck(r) ==
    /\ req[r].pc = "client"
    /\ req' = [req EXCEPT ![r] =
                 IF ~ClientFound(req[r].clientId)
                 THEN [@ EXCEPT !.pc = "rollback", !.resp = InvalidClient]
                 ELSE IF req[r].billFromId # 0 THEN [@ EXCEPT !.pc = "billfrom"]
                 ELSE ToCreate(@)]
    /\ sent' = NoSent
    /\ UNCHANGED <<invoices, items, nextId, clients, billFroms, now, nonInvVars>>

BillFromCheck(r) ==
    /\ req[r].pc = "billfrom"
    /\ req' = [req EXCEPT ![r] =
                 IF ~BillFromFound(req[r].billFromId, req[r].user)
                 THEN [@ EXCEPT !.pc = "rollback", !.resp = InvalidBillFromAddress]
                 ELSE ToCreate(@)]
    /\ sent' = NoSent
    /\ UNCHANGED <<invoices, items, nextId, clients, billFroms, now, nonInvVars>>

\* an early return: await transaction.rollback(); return res.status(...)
EarlyRollback(r) ==
    /\ req[r].pc = "rollback"
    /\ invoices' = AfterRollback(invoices, r)
    /\ items' = AfterRollback(items, r)
    /\ req' = [req EXCEPT ![r] = Idle]
    /\ sent' = Response(r, req[r], req[r].resp)
    /\ UNCHANGED <<nextId, clients, billFroms, now, nonInvVars>>

\* the beforeValidate hook: find the last number of the month, add one
Hook(r) ==
    /\ req[r].pc = "hook"
    /\ req' = [req EXCEPT ![r] =
                 [@ EXCEPT !.pc = "insert",
                           !.invNumber = GeneratedNumber(
                               {row.invoice_number : row \in Visible(r)}, now)]]
    /\ sent' = NoSent
    /\ UNCHANGED <<invoices, items, nextId, clients, billFroms, now, nonInvVars>>

\* INSERT INTO invoices
InsertInvoice(r) ==
    /\ req[r].pc = "insert"
    /\ ~UniquePending(req[r].invNumber, r)
    /\ nextId' = nextId + 1
    /\ IF UniqueConflict(req[r].invNumber)
          \/ ForeignKeyViolation(req[r].clientId, req[r].billFromId)
       THEN /\ req' = [req EXCEPT ![r] =
                       [@ EXCEPT !.pc = "catch",
                                 !.err = IF UniqueConflict(req[r].invNumber)
                                         THEN "unique" ELSE "foreign key"]]
            /\ UNCHANGED invoices
       ELSE /\ invoices' = invoices \cup
                   {[id |-> nextId, user_id |-> req[r].user, client_id |-> req[r].clientId,
                     invoice_number |-> req[r].invNumber,
                     bill_from_id |-> req[r].billFromId, created_at |-> now, xid |-> r,
                     status |-> "pending", amount_paid |-> 0, total |-> 1, notes |-> ""]}
            /\ req' = [req EXCEPT ![r] = [@ EXCEPT !.pc = "items", !.id = nextId]]
    /\ sent' = NoSent
    /\ UNCHANGED <<items, clients, billFroms, now, nonInvVars>>

\* INSERT INTO invoice_items, one per element of the body's array, in order;
\* the statement may fail at the storage layer
InsertItem(r) ==
    /\ req[r].pc = "items"
    /\ req[r].k < req[r].nItems
    /\ \/ /\ items' = items \cup
                 {[invoice_id |-> req[r].id, idx |-> req[r].k + 1, xid |-> r]}
          /\ req' = [req EXCEPT ![r] = [@ EXCEPT !.k = @ + 1]]
       \/ /\ req' = [req EXCEPT ![r] = [@ EXCEPT !.pc = "catch", !.err = "item"]]
          /\ UNCHANGED items
    /\ sent' = NoSent
    /\ UNCHANGED <<invoices, nextId, clients, billFroms, now, nonInvVars>>

\* await transaction.commit(); res.status(201)
Commit(r) ==
    /\ req[r].pc = "items"
    /\ req[r].k = req[r].nItems
    /\ invoices' = AfterCommit(invoices, r)
    /\ items' = AfterCommit(items, r)
    /\ req' = [req EXCEPT ![r] = Idle]
    /\ sent' = Response(r, req[r], Created)
    /\ UNCHANGED <<nextId, clients, billFroms, now, nonInvVars>>

\* catch (error) { await transaction.rollback(); res.status(500) }
CatchRollback(r) ==
    /\ req[r].pc = "catch"
    /\ invoices' = AfterRollback(invoices, r)
    /\ items' = AfterRollback(items, r)
    /\ req' = [req EXCEPT ![r] = Idle]
    /\ sent' = Response(r, req[r], CreateFailed)
    /\ UNCHANGED <<nextId, clients, billFroms, now, nonInvVars>>

\* the calendar month advances
Tick ==
    /\ now < MaxClock
    /\ now' = now + 1
    /\ sent' = NoSent
    /\ UNCHANGED <<invoices, items, nextId, clients, billFroms, req, nonInvVars>>

Step(r) ==
    \/ DupCheck(r) \/ ClientCheck(r) \/ BillFromCheck(r) \/ EarlyRollback(r)
    \/ Hook(r) \/ InsertInvoice(r) \/ InsertItem(r) \/ Commit(r) \/ CatchRollback(r)

Start(r) == Receive(r, MaxInvoiceId)

Next == (\E r \in Reqs : Start(r) \/ Step(r)) \/ Tick

Spec == Init /\ [][Next]_vars

\* requests executed one after another: a request starts when no other runs
StartSeq(r) == (\A q \in Reqs : req[q].pc = "idle") /\ Receive(r, MaxSeqInvoiceId)

NextSeq ==
    \/ \E r \in Reqs : StartSeq(r)
    \/ \E r \in Reqs : Step(r)
    \/ Tick

SpecSeq == Init /\ [][NextSeq]_vars

\* ------------------------- POST /api/payment-details, PUT /api/payment-details/:id
\* creates that will still take an id
PdAwaitingId == {q \in Reqs : pd[q].pc # "idle" /\ pd[q].op = "create"}

AfterGates(q) == [q EXCEPT !.pc = IF q.isDefault THEN "unset" ELSE "write"]

\* the request arrives; the user-scoped routes take the scope from the token
\* and have no invoiceId
PdReceive(r, budget) ==
    /\ pd[r].pc = "idle"
    /\ \E op \in {"create", "update"},
          s \in (IF scoping = "user" THEN Users ELSE PdClientIds),
          d \in BOOLEAN,
          inv \in (IF scoping = "user" THEN {0} ELSE {0, 1}) :
          \E id \in (IF op = "update" THEN 1..budget ELSE {0}) :
             /\ op = "create" => pdNextId + Cardinality(PdAwaitingId) <= budget
             /\ LET q == [PdIdle EXCEPT !.op = op, !.scope = s, !.pid = id,
                                        !.isDefault = d, !.invoiceId = inv,
                                        !.hadDefault = Defaults(payments, s) \ {id} # {}]
                IN  pd' = [pd EXCEPT ![r] =
                             IF scoping = "client" THEN [q EXCEPT !.pc = "client"]
                             ELSE AfterGates(q)]
    /\ pdSent' = NoPdSent
    /\ UNCHANGED <<payments, pdNextId, scoping, nonPdVars>>

\* Client.findByPk(clientId)
PdClientCheck(r) ==
    /\ pd[r].pc = "client"
    /\ IF ~ClientFound(pd[r].scope)
       THEN /\ pd' = [pd EXCEPT ![r] = PdIdle]
            /\ pdSent' = PdResponse(r, pd[r], InvalidClient, 0)
       ELSE /\ pd' = [pd EXCEPT ![r] =
                       IF pd[r].invoiceId # 0 THEN [@ EXCEPT !.pc = "invoice"]
                       ELSE AfterGates(@)]
            /\ pdSent' = NoPdSent
    /\ UNCHANGED <<payments, pdNextId, scoping, nonPdVars>>

\* Invoice.findOne({ id: invoiceId, client_id: clientId })
PdInvoiceCheck(r) ==
    /\ pd[r].pc = "invoice"
    /\ IF ~\E row \in Committed : row.id = pd[r].invoiceId /\ row.client_id = pd[r].scope
       THEN /\ pd' = [pd EXCEPT ![r] = PdIdle]
            /\ pdSent' = PdResponse(r, pd[r], InvalidInvoice, 0)
       ELSE /\ pd' = [pd EXCEPT ![r] = AfterGates(@)]
            /\ pdSent' = NoPdSent
    /\ UNCHANGED <<payments, pdNextId, scoping, nonPdVars>>

\* variant: an unset whose where clause matches no row
UnsetNothing(q) == {}

\* the rows of UPDATE ... SET is_default = false: all of the scope on create,
\* all of the scope but params.id on update
UnsetTargets(q) ==
    {row \in payments : row.scope = q.scope /\ (q.op = "update" => row.id # q.pid)}

PdUnset(r) ==
    /\ pd[r].pc = "unset"
    /\ payments' = {IF row \in UnsetTargets(pd[r]) THEN [row EXCEPT !.is_default = FALSE]
                    ELSE row : row \in payments}
    /\ pd' = [pd EXCEPT ![r] = [@ EXCEPT !.pc = "write"]]
    /\ pdSent' = NoPdSent
    /\ UNCHANGED <<pdNextId, scoping, nonPdVars>>

\* INSERT INTO payment_details; 201
PdInsert(r) ==
    /\ pd[r].pc = "write"
    /\ pd[r].op = "create"
    /\ payments' = payments \cup
           {[id |-> pdNextId, scope |-> pd[r].scope, is_default |-> pd[r].isDefault]}
    /\ pdNextId' = pdNextId + 1
    /\ pd' = [pd EXCEPT ![r] = PdIdle]
    /\ pdSent' = PdResponse(r, pd[r], PdCreated, pdNextId)
    /\ UNCHANGED <<scoping, nonPdVars>>

\* the rows of the final UPDATE: WHERE id = ?, and AND user_id = ? in the
\* user-scoped routes
UpdateTargets(q) ==
    {row \in payments : row.id = q.pid /\ (scoping = "user" => row.scope = q.scope)}

\* UPDATE payment_details SET client_id, ..., is_default; 404 when no row matched
PdUpdate(r) ==
    /\ pd[r].pc = "write"
    /\ pd[r].op = "update"
    /\ payments' = {IF row \in UpdateTargets(pd[r])
                    THEN [row EXCEPT !.scope = pd[r].scope, !.is_default = pd[r].isDefault]
                    ELSE row : row \in payments}
    /\ pd' = [pd EXCEPT ![r] = PdIdle]
    /\ pdSent' = PdResponse(r, pd[r],
                            IF UpdateTargets(pd[r]) = {} THEN PdNotFound ELSE PdUpdated,
                            pd[r].pid)
    /\ UNCHANGED <<pdNextId, scoping, nonPdVars>>

\* a statement fails at the storage layer: catch (error) { res.status(500) }
PdCatch(r) ==
    /\ pd[r].pc \in {"unset", "write"}
    /\ pd' = [pd EXCEPT ![r] = PdIdle]
    /\ pdSent' = PdResponse(r, pd[r],
                            IF pd[r].op = "create" THEN PdCreateFailed ELSE PdUpdateFailed, 0)
    /\ UNCHANGED <<payments, pdNextId, scoping, nonPdVars>>

PdStep(r) ==
    \/ PdClientCheck(r) \/ PdInvoiceCheck(r) \/ PdUnset(r)
    \/ PdInsert(r) \/ PdUpdate(r) \/ PdCatch(r)

\* the store the payment-details requests run against: two clients, one
\* committed invoice of client 1, either set of routes mounted
InitPD ==
    /\ invoices = {[id |-> 1, user_id |-> 1, client_id |-> 1,
                    invoice_number |-> FmtNumber(1, 1), bill_from_id |-> 0,
                    created_at |-> 1, xid |-> 0,
                    status |-> "pending", amount_paid |-> 0, total |-> 1, notes |-> ""]}
    /\ items = {[invoice_id |-> 1, idx |-> 1, xid |-> 0]}
    /\ nextId = 2
    /\ clients = {1, 2}
    /\ billFroms = {[id |-> 1, user_id |-> 1]}
    /\ now = 1
    /\ req = [r \in Reqs |-> Idle]
    /\ sent = NoSent
    /\ payments = {}
    /\ pdNextId = 1
    /\ scoping \in {"client", "user"}
    /\ pd = [r \in Reqs |-> PdIdle]
    /\ pdSent = NoPdSent
    /\ del = [r \in DelReqs |-> DelIdle]
    /\ delSent = NoDelSent
    /\ SideInit

PdStart(r) == PdReceive(r, MaxPayments)

NextPD == \E r \in Reqs : PdStart(r) \/ PdStep(r)

SpecPD == InitPD /\ [][NextPD]_vars

\* requests executed one at a time
PdStartSeq(r) == (\A q \in Reqs : pd[q].pc = "idle") /\ PdReceive(r, MaxSeqPayments)

NextPDSeq ==
    \/ \E r \in Reqs : PdStartSeq(r)
    \/ \E r \in Reqs : PdStep(r)

SpecPDSeq == InitPD /\ [][NextPDSeq]_vars

\* ------------- DELETE /api/clients/:id, DELETE /api/bill-from-addresses/:id
DelReceive(r) ==
    /\ del[r].pc = "idle"
    /\ \E kind \in {"client", "address"}, u \in Users :
          \E id \in (IF kind = "client" THEN ClientIds ELSE BillFromIds \ {0}) :
             del' = [del EXCEPT ![r] = [pc |-> "count", kind |-> kind, id |-> id, user |-> u]]
    /\ delSent' = NoDelSent
    /\ UNCHANGED <<invVars, pdVars, sideVars>>

\* variant: a count whose where clause matches no invoice
NoReferencingInvoices(q) == {}

\* Invoice.count({ client_id }) / Invoice.count({ bill_from_id, user_id })
ReferencingInvoices(q) ==
    {row \in Committed :
        IF q.kind = "client" THEN row.client_id = q.id
        ELSE row.bill_from_id = q.id /\ row.user_id = q.user}

\* if (invoiceCount > 0) return res.status(400)
DelCount(r) ==
    /\ del[r].pc = "count"
    /\ IF ReferencingInvoices(del[r]) # {}
       THEN /\ del' = [del EXCEPT ![r] = DelIdle]
            /\ delSent' = DelResponse(r, del[r],
                             IF del[r].kind = "client" THEN CannotDeleteClient
                             ELSE CannotDeleteAddress)
       ELSE /\ del' = [del EXCEPT ![r] = [@ EXCEPT !.pc = "destroy"]]
            /\ delSent' = NoDelSent
    /\ UNCHANGED <<invVars, pdVars, sideVars>>

\* variant: invoice_items.invoice_id declared without a delete rule
NoCascade(its, gone) == its

\* invoice_items.invoice_id references invoices(id) ON DELETE CASCADE
Cascade(its, gone) == {it \in its : it.invoice_id \notin {row.id : row \in gone}}

\* the rows of invoices whose foreign key points at the row to delete
ChildRows(q) ==
    {row \in invoices :
        IF q.kind = "client" THEN row.client_id = q.id ELSE row.bill_from_id = q.id}

\* ON DELETE rule of invoices.client_id and invoices.bill_from_id. The columns
\* name none; the associations fill it in when associate() runs, and the first
\* association to reach the column decides: belongsTo leaves NO ACTION, hasMany
\* gives CASCADE on a NOT NULL column and SET NULL on a nullable one. Which of
\* them the build ends with is settled outside the handler.
OnDeleteRules == {"NO ACTION", "hasMany"}

\* the invoices left by deleting the parent row of q under a rule
OnDelete(rule, q, rows) ==
    IF rule = "NO ACTION" THEN rows
    ELSE IF q.kind = "client" THEN rows \ ChildRows(q)
    ELSE {IF row \in ChildRows(q) THEN [row EXCEPT !.bill_from_id = 0] ELSE row :
            row \in rows}

\* Client.destroy({ id }) / BillFromAddress.destroy({ id, user_id }): waits for
\* an open transaction that inserted a child row; on a committed child row it
\* fails under NO ACTION (catch: 500) and takes the child rows along under the
\* hasMany rule; 404 when no row was deleted
DelDestroy(r) ==
    /\ del[r].pc = "destroy"
    /\ \E rule \in OnDeleteRules :
       LET q == del[r]
           matched == IF q.kind = "client" THEN q.id \in clients
                      ELSE \E b \in billFroms : b.id = q.id /\ b.user_id = q.user
           blocked == matched /\ ChildRows(q) # {} /\ rule = "NO ACTION"
           left == IF matched /\ ~blocked THEN OnDelete(rule, q, invoices) ELSE invoices
       IN  /\ matched => \A row \in ChildRows(q) : row.xid = 0
           /\ clients' = IF q.kind = "client" /\ ~blocked THEN clients \ {q.id} ELSE clients
           /\ billFroms' = IF q.kind = "address" /\ ~blocked
                           THEN {b \in billFroms : ~(b.id = q.id /\ b.user_id = q.user)}
                           ELSE billFroms
           /\ invoices' = left
           /\ items' = Cascade(items, {row \in invoices : row.id \notin {l.id : l \in left}})
           /\ delSent' = DelResponse(r, q,
                            IF blocked
                            THEN (IF q.kind = "client" THEN DeleteClientFailed
                                  ELSE DeleteAddressFailed)
                            ELSE IF matched THEN Deleted
                            ELSE IF q.kind = "client" THEN ClientNotFound
                            ELSE AddressNotFound)
    /\ del' = [del EXCEPT ![r] = DelIdle]
    /\ UNCHANGED <<nextId, now, req, sent, pdVars, sideVars>>

DelStep(r) == DelCount(r) \/ DelDestroy(r)

\* one invoice creation at a time next to the delete requests
NextDel ==
    \/ Start(1) \/ Step(1)
    \/ \E r \in DelReqs : DelReceive(r) \/ DelStep(r)

SpecDel == Init /\ [][NextDel]_vars

\* ---------------------- POST /api/invoices (SQL): control flow of the handler
\* pool.getConnection() waits for a free connection; gate is the check the
\* request's body will fail, if any
TxAcquire(r) ==
    /\ tx[r].pc \in {"idle", "done"}
    /\ pool > 0
    /\ pool' = pool - 1
    /\ \E g \in {"none", "dup", "client", "billfrom"} :
          tx' = [tx EXCEPT ![r] = [TxIdle EXCEPT !.pc = "begin", !.gate = g]]
    /\ UNCHANGED <<invVars, pdVars, delVars, mwVars, accVars, regVars>>

\* the awaited statements of the try block, in order
TxNextPc(q) ==
    CASE q.pc = "begin" -> "dup"
      [] q.pc \in {"dup", "client", "billfrom"} /\ q.gate = q.pc -> "reject"
      [] q.pc = "dup" -> "client"
      [] q.pc = "client" -> "billfrom"
      [] q.pc = "billfrom" -> "insert"
      [] q.pc = "insert" -> "items"
      [] q.pc = "items" -> "commit"
      [] q.pc = "commit" -> "finally"

\* one awaited statement: it succeeds, or it throws and control goes to catch
TxStatement(r) ==
    /\ tx[r].pc \in {"begin", "dup", "client", "billfrom", "insert", "items", "commit"}
    /\ \/ tx' = [tx EXCEPT ![r] =
                   [@ EXCEPT !.pc = TxNextPc(tx[r]),
                             !.state = IF tx[r].pc = "begin" THEN "open"
                                       ELSE IF tx[r].pc = "commit" THEN "committed" ELSE @,
                             !.opened = @ \/ tx[r].pc = "begin",
                             !.resp = IF tx[r].pc = "commit" THEN 201 ELSE @]]
       \/ tx' = [tx EXCEPT ![r] = [@ EXCEPT !.pc = "catch"]]
    /\ UNCHANGED <<pool, invVars, pdVars, delVars, mwVars, accVars, regVars>>

\* an early return: await connection.rollback(); return res.status(409 / 400)
TxReject(r) ==
    /\ tx[r].pc = "reject"
    /\ \/ tx' = [tx EXCEPT ![r] =
                   [@ EXCEPT !.pc = "finally", !.state = "rolledback",
                             !.resp = IF tx[r].gate = "dup" THEN 409 ELSE 400]]
       \/ tx' = [tx EXCEPT ![r] = [@ EXCEPT !.pc = "catch"]]
    /\ UNCHANGED <<pool, invVars, pdVars, delVars, mwVars, accVars, regVars>>

\* catch (error) { await connection.rollback(); res.status(500) }: when the
\* rollback throws, the error leaves the handler and nothing is sent
TxCatch(r) ==
    /\ tx[r].pc = "catch"
    /\ \/ tx' = [tx EXCEPT ![r] =
                   [@ EXCEPT !.pc = "finally",
                             !.state = IF @ = "open" THEN "rolledback" ELSE @,
                             !.resp = 500]]
       \/ tx' = [tx EXCEPT ![r] = [@ EXCEPT !.pc = "finally"]]
    /\ UNCHANGED <<pool, invVars, pdVars, delVars, mwVars, accVars, regVars>>

\* finally { connection.release() }
TxFinally(r) ==
    /\ tx[r].pc = "finally"
    /\ tx' = [tx EXCEPT ![r] = [@ EXCEPT !.pc = "done", !.released = @ + 1]]
    /\ pool' = pool + 1
    /\ UNCHANGED <<invVars, pdVars, delVars, mwVars, accVars, regVars>>

NextTx ==
    \E r \in Reqs : TxAcquire(r) \/ TxStatement(r) \/ TxReject(r) \/ TxCatch(r) \/ TxFinally(r)

SpecTx == Init /\ [][NextTx]_vars

\* --------------------- numbering against stores of arbitrary stored numbers
\* numbers a store can hold under the first month's prefix: generated ones,
\* the ones around the 4-digit limit, and user-supplied ones with a
\* non-numeric suffix (ABCD) or a suffix of another width (12)
NumberCatalogue ==
    << FmtNumber(1, 1), FmtNumber(1, 9999), FmtNumber(1, 10000),
       Prefix(1) \o <<65, 66, 67, 68>>, Prefix(1) \o <<49, 50>> >>

\* `INV-${Date.now()}`, the clock counted in seconds
Fallback(c) == <<73, 78, 86, 45>> \o ToStr(1735689600 + c)

\* the hook's catch: the lookup throws and the timestamp number is used
HookFallback(r) ==
    /\ req[r].pc = "hook"
    /\ req' = [req EXCEPT ![r] = [@ EXCEPT !.pc = "insert", !.invNumber = Fallback(now)]]
    /\ sent' = NoSent
    /\ UNCHANGED <<invoices, items, nextId, clients, billFroms, now, nonInvVars>>

\* any subset of the catalogue is stored, committed, for user 1 and client 1
InitNum ==
    /\ \E ids \in SUBSET DOMAIN NumberCatalogue :
          invoices = {[id |-> i, user_id |-> 1, client_id |-> 1,
                       invoice_number |-> NumberCatalogue[i], bill_from_id |-> 0,
                       created_at |-> 1, xid |-> 0,
                       status |-> "pending", amount_paid |-> 0, total |-> 1, notes |-> ""] : i \in ids}
    /\ items = {}
    /\ nextId = Len(NumberCatalogue) + 1
    /\ clients = {1}
    /\ billFroms = {[id |-> 1, user_id |-> 1]}
    /\ now = 1
    /\ req = [r \in Reqs |-> Idle]
    /\ sent = NoSent
    /\ payments = {}
    /\ pdNextId = 1
    /\ scoping = "client"
    /\ pd = [r \in Reqs |-> PdIdle]
    /\ pdSent = NoPdSent
    /\ del = [r \in DelReqs |-> DelIdle]
    /\ delSent = NoDelSent
    /\ SideInit

\* one creation at a time
NextNum ==
    \/ Receive(1, Len(NumberCatalogue) + MaxNumCreations)
    \/ Step(1)
    \/ HookFallback(1)

SpecNum == InitNum /\ [][NextNum]_vars

\* ------------------------------------ authenticateToken, validateRequest
\* tokens a client can present: [wellFormed, signed, expired, userId]
Tokens ==
    [wellFormed : BOOLEAN, signed : BOOLEAN, expired : BOOLEAN, userId : {2}]
NoToken == [wellFormed |-> FALSE, signed |-> FALSE, expired |-> FALSE, userId |-> 0]
Headers == {<<>>} \cup {<<t>> : t \in Tokens} \cup {<<"Bearer", t>> : t \in Tokens}

\* variant: security only when the variable is set to "true"
IsApiSecureOnlyWhenTrue == apiSecure = "true"

IsApiSecure == apiSecure # "false"

\* authHeader && authHeader.split(" ")[1]
TokenOf(h) == IF Len(h) >= 2 THEN h[2] ELSE NoToken

\* variant: a verification that does not look at the expiry
VerifiesIgnoringExpiry(t) == t.wellFormed /\ t.signed

\* jwt.verify(token, JWT_SECRET) does not throw
Verifies(t) == t.wellFormed /\ t.signed /\ ~t.expired

\* variant: a schema that accepts every payload
SchemaErrorNever(q) == FALSE

\* schema.validate(req[property]).error
SchemaError(q) == ~q.payloadValid

Unauthorized == [code |-> 401, error |-> "Access denied. No token provided."]
Forbidden == [code |-> 403, error |-> "Invalid or expired token."]
ValidationError == [code |-> 400, error |-> "Validation error"]
Handled == [code |-> 200, error |-> ""]

AfterAuth(q) == [q EXCEPT !.stage = IF q.validated THEN "validate" ELSE "handler"]

MwReceive ==
    /\ mw.stage \in {"idle", "done"}
    /\ \E route \in {"protected", "public"}, v \in BOOLEAN, h \in Headers, ok \in BOOLEAN :
          LET q == [MwIdle EXCEPT !.route = route, !.validated = v, !.header = h,
                                  !.payloadValid = ok]
          IN  mw' = IF route = "protected" THEN [q EXCEPT !.stage = "auth"]
                    ELSE AfterAuth(q)
    /\ UNCHANGED <<apiSecure, invVars, pdVars, delVars, txVars, accVars, regVars>>

MwAuthenticate ==
    /\ mw.stage = "auth"
    /\ mw' = IF ~IsApiSecure
             THEN AfterAuth([mw EXCEPT !.warned = @ + 1, !.user = 1])
             ELSE IF TokenOf(mw.header) = NoToken
             THEN [mw EXCEPT !.stage = "done", !.resp = Unauthorized]
             ELSE IF Verifies(TokenOf(mw.header))
             THEN AfterAuth([mw EXCEPT !.user = TokenOf(mw.header).userId])
             ELSE [mw EXCEPT !.stage = "done", !.resp = Forbidden]
    /\ UNCHANGED <<apiSecure, invVars, pdVars, delVars, txVars, accVars, regVars>>

MwValidate ==
    /\ mw.stage = "validate"
    /\ mw' = IF ~IsApiSecure
             THEN [mw EXCEPT !.warned = @ + 1, !.stage = "handler"]
             ELSE IF SchemaError(mw)
             THEN [mw EXCEPT !.stage = "done", !.resp = ValidationError]
             ELSE [mw EXCEPT !.stage = "handler"]
    /\ UNCHANGED <<apiSecure, invVars, pdVars, delVars, txVars, accVars, regVars>>

\* the route handler is invoked
MwHandler ==
    /\ mw.stage = "handler"
    /\ mw' = [mw EXCEPT !.stage = "done", !.ran = TRUE, !.resp = Handled]
    /\ UNCHANGED <<apiSecure, invVars, pdVars, delVars, txVars, accVars, regVars>>

NextMw == MwReceive \/ MwAuthenticate \/ MwValidate \/ MwHandler

\* the process runs with API_SECURE unset or set to some value
InitMw ==
    /\ StoreInit
    /\ IdleInit
    /\ apiSecure \in {"undefined", "true", "false", "FALSE", "0"}

SpecMw == InitMw /\ [][NextMw]_vars

(* ------------------------------------------------------------------ *)
(* GET, PUT and DELETE on one row: the handlers that run one statement *)
(* ------------------------------------------------------------------ *)

MaxAccId == 3
MaxAccPayments == 1

InvoiceNotFound == [code |-> 404, error |-> "Invoice not found"]
Found == [code |-> 200, error |-> ""]

\* the routes under /api/invoices, /api/clients, /api/bill-from-addresses and
\* /api/payment-details whose handler is one statement ("invoices" is
\* GET /api/clients/:id/invoices, which first looks the client up)
AccRoutes ==
    {[table |-> "invoices", op |-> o] : o \in {"list", "get", "update", "delete"}}
      \cup {[table |-> "clients", op |-> o] : o \in {"get", "update", "invoices"}}
      \cup {[table |-> "bill_from_addresses", op |-> o] : o \in {"get", "update"}}
      \cup {[table |-> "payment_details", op |-> o] : o \in {"get", "delete"}}

\* bodies invoiceUpdateSchema accepts: one of the four statuses, an
\* amountPaid of at least 0 (the invoices' total is 1), notes omitted, empty
\* or a text
StatusBodies ==
    [status : {"pending", "paid", "partially_paid", "overdue"},
     amountPaid : {0, 2},
     notes : {"omitted", "", "n"}]

\* bodies: the bodies PUT /api/invoices/:id/status is sent with
AccReceive(bodies) ==
    /\ acc.pc = "idle"
    /\ \E route \in AccRoutes, id \in 1..MaxAccId, u \in Users :
          \E b \in (IF route = [table |-> "invoices", op |-> "update"]
                    THEN bodies ELSE {NoBody}) :
             acc' = [pc |-> "run", table |-> route.table, op |-> route.op,
                     id |-> IF route.op = "list" THEN 0 ELSE id, user |-> u,
                     body |-> b]
    /\ accSent' = NoAccSent
    /\ UNCHANGED <<invVars, pdVars, delVars, txVars, mwVars, regVars>>

\* variant: where clauses on the id alone
AccTargetsAnyUser(q) ==
    CASE q.table = "invoices" ->
            {row \in Committed : q.op = "list" \/ row.id = q.id}
      [] q.table = "clients" -> {[id |-> c] : c \in clients \cap {q.id}}
      [] q.table = "bill_from_addresses" -> {b \in billFroms : b.id = q.id}
      [] OTHER -> {p \in payments : p.id = q.id}

\* the rows the statement's where clause matches:
\*   invoices          { user_id } / { id, user_id }
\*   clients           findByPk(id) / { id }
\*   bill_from         { id, user_id }
\*   payment_details   findByPk(id) / { id }, or id = ? AND user_id = ?
AccTargets(q) ==
    CASE q.table = "invoices" ->
            {row \in Committed :
                (q.op = "list" \/ row.id = q.id) /\ row.user_id = q.user}
      [] q.table = "clients" -> {[id |-> c] : c \in clients \cap {q.id}}
      [] q.table = "bill_from_addresses" ->
            {b \in billFroms : b.id = q.id /\ b.user_id = q.user}
      [] OTHER ->
            {p \in payments : p.id = q.id /\ (scoping = "user" => p.scope = q.user)}

\* Invoice.findAll({ where: { client_id: clientId } })
ClientInvoices(q) == {row \in Committed : row.client_id = q.id}

AccNotFound(t) ==
    CASE t = "invoices" -> InvoiceNotFound
      [] t = "clients" -> ClientNotFound
      [] t = "bill_from_addresses" -> AddressNotFound
      [] OTHER -> PdNotFound

\* variant: an update that never stores more than the invoice's total
StatusUpdateClamped(row, b) ==
    [row EXCEPT !.status = b.status,
                !.amount_paid = IF b.amountPaid > row.total THEN row.total ELSE b.amountPaid,
                !.notes = IF b.notes \in {"omitted", ""} THEN "null" ELSE b.notes]

\* Invoice.update({ status, amount_paid: amountPaid, notes: notes || null })
StatusUpdate(row, b) ==
    [row EXCEPT !.status = b.status,
                !.amount_paid = b.amountPaid,
                !.notes = IF b.notes \in {"omitted", ""} THEN "null" ELSE b.notes]

\* the statement and the response: 404 when nothing matched (a list answers
\* 200 with what matched); a deleted invoice takes its items with it; an
\* UPDATE or DELETE of invoices waits for the open transaction that inserted
\* the row with that id
AccRun ==
    /\ acc.pc = "run"
    /\ (acc.table = "invoices" /\ acc.op \in {"update", "delete"})
          => \A row \in invoices : row.id = acc.id => row.xid = 0
    /\ LET q == acc
           matched == AccTargets(q)
           rows == IF q.op = "invoices" /\ matched # {} THEN ClientInvoices(q) ELSE matched
           gone == IF q.table = "invoices" /\ q.op = "delete" THEN matched ELSE {}
           set == IF q.table = "invoices" /\ q.op = "update" THEN matched ELSE {}
       IN  /\ accSent' = AccResponse(q,
                             IF q.op = "list" \/ matched # {} THEN Found
                             ELSE AccNotFound(q.table),
                             rows)
           /\ invoices' = {IF row \in set THEN StatusUpdate(row, q.body) ELSE row :
                              row \in invoices \ gone}
           /\ items' = Cascade(items, gone)
           /\ payments' = IF q.table = "payment_details" /\ q.op = "delete"
                          THEN payments \ matched ELSE payments
    /\ acc' = AccIdle
    /\ UNCHANGED <<nextId, clients, billFroms, now, req, sent, pdNextId, scoping, pd,
                   pdSent, delVars, txVars, mwVars, regVars>>

\* no handler is running and the last response has been delivered
Quiet ==
    /\ acc.pc = "idle" /\ accSent = NoAccSent
    /\ \A r \in DelReqs : del[r].pc = "idle"
    /\ delSent = NoDelSent
    /\ \A r \in Reqs : pd[r].pc = "idle"
    /\ pdSent = NoPdSent

\* res.json(...) has gone out: the response leaves the wire
Delivered ==
    /\ acc.pc = "idle" /\ del[1].pc = "idle" /\ pd[1].pc = "idle"
    /\ <<accSent, delSent, pdSent>> # <<NoAccSent, NoDelSent, NoPdSent>>
    /\ accSent' = NoAccSent
    /\ delSent' = NoDelSent
    /\ pdSent' = NoPdSent
    /\ UNCHANGED <<invVars, payments, pdNextId, scoping, pd, del, acc, txVars, mwVars,
                   regVars>>

\* two users' invoices for the same client, one address each
InitAcc ==
    /\ invoices = {[id |-> 1, user_id |-> 1, client_id |-> 1,
                    invoice_number |-> FmtNumber(1, 1), bill_from_id |-> 1,
                    created_at |-> 1, xid |-> 0,
                    status |-> "pending", amount_paid |-> 0, total |-> 1, notes |-> ""],
                   [id |-> 2, user_id |-> 2, client_id |-> 1,
                    invoice_number |-> FmtNumber(1, 2), bill_from_id |-> 0,
                    created_at |-> 1, xid |-> 0,
                    status |-> "pending", amount_paid |-> 0, total |-> 1, notes |-> ""]}
    /\ items = {[invoice_id |-> 1, idx |-> 1, xid |-> 0],
                [invoice_id |-> 2, idx |-> 1, xid |-> 0]}
    /\ nextId = 3
    /\ clients = {1, 2}
    /\ billFroms = {[id |-> 1, user_id |-> 1], [id |-> 2, user_id |-> 2]}
    /\ now = 1
    /\ req = [r \in Reqs |-> Idle]
    /\ sent = NoSent
    /\ payments = {}
    /\ pdNextId = 1
    /\ scoping \in {"client", "user"}
    /\ pd = [r \in Reqs |-> PdIdle]
    /\ pdSent = NoPdSent
    /\ del = [r \in DelReqs |-> DelIdle]
    /\ delSent = NoDelSent
    /\ SideInit

\* one request at a time over the four collections
NextAcc ==
    \/ Quiet /\ AccReceive({b \in StatusBodies : b.status = "paid" /\ b.amountPaid = 0
                                                   /\ b.notes = "omitted"})
    \/ Quiet /\ DelReceive(1)
    \/ Quiet /\ PdReceive(1, MaxAccPayments)
    \/ AccRun
    \/ DelStep(1)
    \/ PdStep(1)
    \/ Delivered

SpecAcc == InitAcc /\ [][NextAcc]_vars

\* the same routes with every body of the status update
NextStatus ==
    \/ Quiet /\ AccReceive(StatusBodies)
    \/ AccRun
    \/ Delivered

SpecStatus == InitAcc /\ [][NextStatus]_vars

\* invoice creation next to the same routes
NextItems ==
    \/ Start(1) \/ Step(1)
    \/ Quiet /\ AccReceive({b \in StatusBodies : b.status = "paid" /\ b.amountPaid = 0
                                                   /\ b.notes = "omitted"})
    \/ AccRun
    \/ Delivered

SpecItems == Init /\ [][NextItems]_vars

(* ------------------------------------------------------------------ *)
(* POST /api/users/register *)
(* ------------------------------------------------------------------ *)

Usernames == {1, 2}
Emails == {1, 2}

Registered == [code |-> 201, error |-> ""]
UserAlreadyExists == [code |-> 409, error |-> "User already exists"]
RegistrationFailed == [code |-> 500, error |-> "Registration failed"]

RegReceive(r) ==
    /\ reg[r].pc = "idle"
    /\ \E n \in Usernames, m \in Emails :
          reg' = [reg EXCEPT ![r] = [pc |-> "select", username |-> n, email |-> m]]
    /\ regSent' = NoRegSent
    /\ UNCHANGED <<users, invVars, pdVars, delVars, txVars, mwVars, accVars>>

\* SELECT id FROM users WHERE email = ? OR username = ?
ExistingUsers(q) == {u \in users : u.email = q.email \/ u.username = q.username}

\* if (existingUsers.length > 0) return res.status(409); the password hash is
\* awaited before the insert
RegSelect(r) ==
    /\ reg[r].pc = "select"
    /\ IF ExistingUsers(reg[r]) # {}
       THEN /\ reg' = [reg EXCEPT ![r] = RegIdle]
            /\ regSent' = RegResponse(r, reg[r], UserAlreadyExists)
       ELSE /\ reg' = [reg EXCEPT ![r] = [@ EXCEPT !.pc = "insert"]]
            /\ regSent' = NoRegSent
    /\ UNCHANGED <<users, invVars, pdVars, delVars, txVars, mwVars, accVars>>

\* variant: the columns declared without UNIQUE
UsersNoUnique(q) == FALSE

\* username VARCHAR(255) UNIQUE, email VARCHAR(255) UNIQUE
UsersUniqueConflict(q) ==
    \E u \in users : u.username = q.username \/ u.email = q.email

\* INSERT INTO users, autocommitted; a duplicate key throws into the catch
\* (500); ids are given in insertion order
RegInsert(r) ==
    /\ reg[r].pc = "insert"
    /\ IF UsersUniqueConflict(reg[r])
       THEN /\ regSent' = RegResponse(r, reg[r], RegistrationFailed)
            /\ UNCHANGED users
       ELSE /\ users' = users \cup {[id |-> Cardinality(users) + 1,
                                     username |-> reg[r].username,
                                     email |-> reg[r].email]}
            /\ regSent' = RegResponse(r, reg[r], Registered)
    /\ reg' = [reg EXCEPT ![r] = RegIdle]
    /\ UNCHANGED <<invVars, pdVars, delVars, txVars, mwVars, accVars>>

NextReg == \E r \in Reqs : RegReceive(r) \/ RegSelect(r) \/ RegInsert(r)

SpecReg == Init /\ [][NextReg]_vars

(* ------------------------------------------------------------------ *)
(* POST /api/invoices behind validateRequest(invoiceSchema) *)
(* ------------------------------------------------------------------ *)

\* invoiceSchema: clientId and billFromId are number().integer().positive()
\* .required(), items is array().min(1).required(); an omitted key is 0 here
InvoiceSchemaError(body) ==
    body.clientId <= 0 \/ body.billFromId <= 0 \/ body.nItems < 1

\* the handler is entered with a body the schema let through, or with any
\* body when validation is bypassed
ValidatedStart(r) ==
    /\ Start(r)
    /\ IsApiSecure => ~InvoiceSchemaError(req'[r])

\* validateRequest answers 400 Validation error and does not call next()
RejectInvalid(r) ==
    /\ req[r].pc = "idle"
    /\ IsApiSecure
    /\ \E u \in Users, n \in ExplicitNumbers \cup {NoNumber}, cid \in ClientIds,
          bid \in BillFromIds :
          LET body == [Idle EXCEPT !.user = u, !.number = n, !.clientId = cid,
                                   !.billFromId = bid, !.nItems = NItems]
          IN  /\ InvoiceSchemaError(body)
              /\ sent' = Response(r, body, ValidationError)
    /\ UNCHANGED <<invoices, items, nextId, clients, billFroms, now, req, nonInvVars>>

NextPost == ValidatedStart(1) \/ RejectInvalid(1) \/ Step(1) \/ Tick

SpecPost == InitMw /\ [][NextPost]_vars

\* ================================================================== claims
Responded == sent.slot # 0
AutoNumbered == sent.q.number = NoNumber
CommittedNumbers == {row.invoice_number : row \in Committed}

\* the request just answered left no row behind: it inserted nothing that
\* is still there, committed or not
WroteNothing ==
    /\ \A row \in invoices : row.xid # sent.slot /\ (sent.q.id # 0 => row.id # sent.q.id)
    /\ \A it \in items : it.xid # sent.slot /\ (sent.q.id # 0 => it.invoice_id # sent.q.id)

\* one of the requester's committed invoices carries the request's explicit number
RequesterHasNumber(q) ==
    /\ q.number # NoNumber
    /\ \E row \in Committed : row.invoice_number = q.number /\ row.user_id = q.user

\* the committed rows change only in a step that answers 201
CommittedOnlyByCreated ==
    (Committed' # Committed \/ CommittedItems' # CommittedItems) => sent'.resp = Created

\* C1: in every reachable state no two committed invoice rows carry the same
\* invoice_number, whatever the interleaving of creation requests.
C1_UniqueInvoiceNumbers ==
    \A a, b \in Committed : a.invoice_number = b.invoice_number => a.id = b.id

C1_Witness ==
    /\ sent.resp = CreateFailed
    /\ sent.q.err = "unique"
    /\ \E row \in Committed : row.invoice_number = sent.q.invNumber

\* C2: a creation that fails while inserting its k-th item leaves neither
\* its invoice row nor any of its item rows, and the committed rows are the
\* ones of before: they change only in a step that answers 201.
C2_ItemFailureLeavesNothing ==
    sent.q.err = "item" =>
        /\ sent.resp = CreateFailed
        /\ \A row \in invoices : row.id # sent.q.id /\ row.xid # sent.slot
        /\ \A it \in items : it.invoice_id # sent.q.id /\ it.xid # sent.slot

C2_Atomicity == [][CommittedOnlyByCreated /\ C2_ItemFailureLeavesNothing']_vars

C2_Witness ==
    /\ sent.q.err = "item"
    /\ sent.q.k = NItems - 1
    /\ sent.q.id # 0

\* C3: of the requests that carry the same explicit number and pass the
\* duplicate check together, the one the uniqueness constraint rejects is
\* answered 409 DuplicateInvoiceNumber.
C3_LoserGetsConflict ==
    (sent.q.err = "unique" /\ RequesterHasNumber(sent.q))
        => sent.resp = DuplicateInvoiceNumber

\* C4: requests without invoiceNumber run one after another: when the month's
\* stored numbers are 0001..k, the next invoice is committed with k+1, padded
\* to 4 digits, under INV-{year}-{month}-.
OthersWithPrefix(c) ==
    {row.invoice_number :
        row \in {x \in Committed : x.id # sent.q.id
                                    /\ StartsWith(x.invoice_number, Prefix(c))}}

C4_SequentialSuffixes ==
    (sent.resp = Created /\ AutoNumbered) =>
        \E c \in 1..MaxClock :
            /\ StartsWith(sent.q.invNumber, Prefix(c))
            /\ LET k == Cardinality(OthersWithPrefix(c))
               IN  OthersWithPrefix(c) = {FmtNumber(c, i) : i \in 1..k}
                       => sent.q.invNumber = FmtNumber(c, k + 1)

C4_Witness ==
    /\ sent.resp = Created /\ AutoNumbered
    /\ sent.q.invNumber = FmtNumber(1, 3)
    /\ {FmtNumber(1, 1), FmtNumber(1, 2), FmtNumber(1, 3)} \subseteq CommittedNumbers

C6_AlwaysInvalidClient ==
    (Responded /\ sent.q.clientId \notin clients) => sent.resp = InvalidClient

\* C6 amended: such a request is answered 400 Invalid client, or 409 when its
\* explicit number is already used by one of the requester's invoices; either
\* way it wrote no invoice or item row.
C6_InvalidClient ==
    (Responded /\ sent.q.clientId \notin clients) =>
        /\ sent.resp \in {InvalidClient, DuplicateInvoiceNumber}
        /\ sent.resp = DuplicateInvoiceNumber => RequesterHasNumber(sent.q)
        /\ sent.q.id = 0 /\ sent.q.k = 0
        /\ WroteNothing

C6_Witness ==
    /\ sent.resp = InvalidClient
    /\ sent.q.clientId \notin clients
    /\ Committed # {}

\* C7 as stated: a request whose billFromId is not an address of the
\* requester is always answered 400 Invalid bill from address.
NotOwnAddress(q) ==
    /\ q.billFromId # 0
    /\ ~\E b \in billFroms : b.id = q.billFromId /\ b.user_id = q.user

C7_AlwaysInvalidBillFrom ==
    (Responded /\ NotOwnAddress(sent.q)) => sent.resp = InvalidBillFromAddress

\* C7 amended: such a request is answered 400 Invalid bill from address unless
\* an earlier gate answers first (409 for a number the requester already uses,
\* 400 Invalid client for a missing client); it wrote no row; and every
\* committed invoice with a bill_from_id names an address of its own user.
C7_InvalidBillFrom ==
    /\ (Responded /\ NotOwnAddress(sent.q)) =>
          /\ sent.resp \in {InvalidBillFromAddress, InvalidClient, DuplicateInvoiceNumber}
          /\ sent.resp = DuplicateInvoiceNumber => RequesterHasNumber(sent.q)
          /\ sent.resp = InvalidClient => sent.q.clientId \notin clients
          /\ sent.q.id = 0 /\ sent.q.k = 0
          /\ WroteNothing
    /\ \A row \in Committed :
          row.bill_from_id # 0 =>
              \E b \in billFroms : b.id = row.bill_from_id /\ b.user_id = row.user_id

C7_Witness ==
    /\ sent.resp = InvalidBillFromAddress
    /\ sent.q.billFromId = 1 /\ sent.q.user = 2
    /\ \E row \in Committed : row.bill_from_id = 1

\* C8: a request whose explicit number one of the requester's committed
\* invoices already uses is sent to the 409 return by the duplicate check, and
\* that return rolls back, answers 409 and adds no invoice or item row.
C8_DuplicateStep(r) ==
    (req[r].pc = "dup" /\ req'[r].pc # "dup" /\ RequesterHasNumber(req[r]))
        => (req'[r].pc = "rollback" /\ req'[r].resp = DuplicateInvoiceNumber)

C8_ConflictReturn(r) ==
    (req[r].pc = "rollback" /\ req[r].resp = DuplicateInvoiceNumber /\ req'[r].pc # "rollback")
        => /\ sent' = Response(r, req[r], DuplicateInvoiceNumber)
           /\ req[r].id = 0 /\ req[r].k = 0
           /\ Committed' = Committed /\ CommittedItems' = CommittedItems
           /\ \A row \in invoices' \cup items' : row.xid # r

C8_RepeatedNumberConflict ==
    [][\A r \in Reqs : C8_DuplicateStep(r) /\ C8_ConflictReturn(r)]_vars

C8_Witness ==
    /\ sent.resp = DuplicateInvoiceNumber
    /\ RequesterHasNumber(sent.q)
    /\ WroteNothing

\* C9: requests run one at a time; a create or update with isDefault = true
\* that succeeds in a scope that had another default row leaves exactly one
\* default row in that scope, the one the request wrote.
PdSucceeded == pdSent.resp \in {PdCreated, PdUpdated}

C9_NewDefaultReplacesOld ==
    (PdSucceeded /\ pdSent.q.isDefault /\ pdSent.q.hadDefault)
        => Defaults(payments, pdSent.q.scope) = {pdSent.id}

C9_Witness ==
    /\ PdSucceeded /\ pdSent.q.isDefault /\ pdSent.q.hadDefault
    /\ pdSent.q.op = "update"
    /\ \E a \in payments : a.scope = pdSent.q.scope /\ a.id # pdSent.id /\ ~a.is_default

\* C10: in every reachable state, while payment-details requests interleave,
\* no scope has more than one row with is_default = true.
C10_AtMostOneDefault ==
    \A s \in PdClientIds \cup Users : Cardinality(Defaults(payments, s)) <= 1

\* C11 as stated: a DELETE of a client or of a bill-from address that a
\* committed invoice references when the handler counts is refused with the
\* Conflict status, 409.
C11_AnsweredAtCount(r) == del[r].pc = "count" /\ del'[r].pc = "idle"

C11_Referenced(q) ==
    \E row \in Committed :
        IF q.kind = "client" THEN row.client_id = q.id ELSE row.bill_from_id = q.id

C11_ReferencedForRequester(q) ==
    \E row \in Committed :
        IF q.kind = "client" THEN row.client_id = q.id
        ELSE row.bill_from_id = q.id /\ row.user_id = q.user

C12_EveryPathEndsTransaction ==
    /\ pool + Cardinality({r \in Reqs : tx[r].pc \notin {"idle", "done"}}) = ConnectionLimit
    /\ \A r \in Reqs :
          tx[r].pc = "done" =>
              /\ tx[r].released = 1
              /\ tx[r].opened => tx[r].state \in {"committed", "rolledback"}

\* what the hook's lookup returned to the request just answered
C13_LastSeen ==
    LastInvoice({row.invoice_number : row \in {x \in Committed : x.id # sent.q.id}}, now)

\* C13: an invoice whose automatic number could not be derived because the
\* trailing segment of the greatest matching number is not an integer is
\* created with the fallback number INV-{epoch}.
C13_FallbackOnParseFailure ==
    (/\ sent.resp = Created /\ AutoNumbered
     /\ C13_LastSeen # <<>>
     /\ ParseInt(LastSegment(C13_LastSeen)).nan)
        => sent.q.invNumber = Fallback(now)

\* C14: whatever the store holds, a creation without invoiceNumber whose
\* client and bill-from address pass the checks and that meets no storage
\* fault (no failing item insert, no failing lookup) is answered 201.
C14_NumberingNeverBlocks ==
    (/\ Responded /\ AutoNumbered
     /\ sent.q.clientId \in clients
     /\ ~NotOwnAddress(sent.q)
     /\ sent.q.err # "item"
     /\ sent.q.invNumber # Fallback(now))
        => sent.resp = Created

\* the Authorization header carries, as its second word, a token that is
\* well formed, signed with the secret and not expired
GoodToken(h) == Len(h) = 2 /\ h[2].wellFormed /\ h[2].signed /\ ~h[2].expired

MwRejectedByAuth ==
    mw.route = "protected" /\ ~GoodToken(mw.header)

\* C15 as stated: with validation enabled, a request to a validated route whose
\* payload fails the schema is answered 400 Validation error and the handler
\* does not run.
C15_InvalidPayloadIs400 ==
    (mw.stage = "done" /\ apiSecure # "false" /\ mw.validated /\ ~mw.payloadValid)
        => (mw.resp = ValidationError /\ ~mw.ran)

\* C15 amended: such a request never reaches the handler; it is answered 400
\* Validation error unless the route is protected and authentication, which
\* runs first, has already answered 401 or 403.
C15_InvalidPayloadRejected ==
    (mw.stage = "done" /\ apiSecure # "false" /\ mw.validated /\ ~mw.payloadValid)
        => /\ ~mw.ran
           /\ IF MwRejectedByAuth THEN mw.resp \in {Unauthorized, Forbidden}
              ELSE mw.resp = ValidationError

C15_Witness ==
    /\ mw.stage = "done" /\ apiSecure = "undefined"
    /\ mw.route = "protected" /\ GoodToken(mw.header)
    /\ mw.resp = ValidationError /\ ~mw.ran

\* C16: with API security enabled, on a protected route, a request without a
\* token is answered 401, one whose token fails verification is answered 403,
\* in both cases the handler does not run; a handler runs only with req.user
\* set to the claims of a verified token.
C16_TokenGate ==
    (apiSecure # "false" /\ mw.route = "protected") =>
        /\ (mw.stage = "done" /\ Len(mw.header) < 2)
              => (mw.resp = Unauthorized /\ ~mw.ran)
        /\ (mw.stage = "done" /\ Len(mw.header) = 2 /\ ~GoodToken(mw.header))
              => (mw.resp = Forbidden /\ ~mw.ran)
        /\ (mw.ran \/ mw.stage \in {"validate", "handler"})
              => (GoodToken(mw.header) /\ mw.user = mw.header[2].userId)

C16_Witness ==
    /\ mw.stage = "done" /\ apiSecure = "true" /\ mw.route = "protected"
    /\ Len(mw.header) = 2 /\ mw.header[2].wellFormed /\ mw.header[2].signed
    /\ mw.header[2].expired
    /\ mw.resp = Forbidden

\* C17: a bypass (a warning logged, the mock user 1 injected) happens only when
\* API_SECURE is "false"; then every authentication and validation step the
\* request passes logs one warning and the handler runs as user 1; with any
\* other value, or unset, nothing is bypassed.
C17_BypassOnlyWhenFalse ==
    /\ (mw.warned > 0 \/ mw.user = 1) => apiSecure = "false"
    /\ (apiSecure = "false" /\ mw.stage = "done") =>
          /\ mw.ran
          /\ mw.warned = (IF mw.route = "protected" THEN 1 ELSE 0)
                           + (IF mw.validated THEN 1 ELSE 0)
          /\ mw.route = "protected" => mw.user = 1
    /\ (apiSecure # "false" /\ mw.ran) =>
          /\ ~MwRejectedByAuth
          /\ mw.validated => mw.payloadValid

C17_Witness ==
    /\ apiSecure = "false" /\ mw.stage = "done"
    /\ mw.route = "protected" /\ mw.validated
    /\ mw.header = <<>> /\ ~mw.payloadValid
    /\ mw.ran /\ mw.warned = 2 /\ mw.user = 1

\* the row a request names exists in the caller's scope: the caller's own
\* invoices, addresses and (user-scoped) payment details; every client
C18_InScope(table, id, user) ==
    CASE table = "invoices" ->
            \E row \in Committed : row.id = id /\ row.user_id = user
      [] table = "clients" -> id \in clients
      [] table = "bill_from_addresses" ->
            \E b \in billFroms : b.id = id /\ b.user_id = user
      [] OTHER ->
            \E p \in payments : p.id = id /\ (scoping = "user" => p.scope = user)

C18_AccStep ==
    (/\ acc.pc = "run" /\ acc'.pc = "idle"
     /\ acc.op \in {"get", "update", "delete"}
     /\ ~C18_InScope(acc.table, acc.id, acc.user))
        => /\ accSent'.resp.code = 404
           /\ accSent'.rows = {}
           /\ invoices' = invoices /\ items' = items /\ payments' = payments

C18_DelStep(r) ==
    (/\ del[r].pc # "idle" /\ del'[r].pc = "idle"
     /\ ~C18_InScope(IF del[r].kind = "client" THEN "clients" ELSE "bill_from_addresses",
                     del[r].id, del[r].user))
        => /\ delSent'.resp.code = 404
           /\ clients' = clients /\ billFroms' = billFroms

\* a PUT /api/payment-details/:id that ends without a storage fault and names
\* no row of the caller's scope
C18_PdMiss(r) ==
    /\ pd[r].op = "update" /\ pd[r].pc # "idle" /\ pd'[r].pc = "idle"
    /\ pdSent'.resp # PdUpdateFailed
    /\ ~C18_InScope("payment_details", pd[r].pid, pd[r].scope)

\* C18 as stated: for invoices, clients, bill-from addresses and payment
\* details, a get, update or delete of an id that names no row in the
\* caller's scope is answered 404.
C18_MissingIdIs404 ==
    [][/\ C18_AccStep
       /\ \A r \in DelReqs : C18_DelStep(r)
       /\ \A r \in Reqs : C18_PdMiss(r) => pdSent'.resp.code = 404]_vars

\* C18 amended: such a get or delete is answered 404 and changes no row; so is
\* an update, except that PUT /api/payment-details/:id checks the body's
\* client and invoice first and answers 400 Invalid client / Invalid invoice
\* when that check fails, and 404 otherwise.
C18_MissingId ==
    [][/\ C18_AccStep
       /\ \A r \in DelReqs : C18_DelStep(r)
       /\ \A r \in Reqs :
             C18_PdMiss(r)
                => pdSent'.resp = (IF pd[r].pc = "client" THEN InvalidClient
                                   ELSE IF pd[r].pc = "invoice" THEN InvalidInvoice
                                   ELSE PdNotFound)]_vars

\* user 1 asked to delete an invoice that exists but is another user's
C18_Witness ==
    /\ accSent.resp = InvoiceNotFound
    /\ accSent.q.op = "delete"
    /\ \E row \in Committed : row.id = accSent.q.id /\ row.user_id # accSent.q.user

\* C19: every invoice a response carries, and every invoice a request
\* updated or deleted, has the user_id of the request's verified token; the
\* routes are GET /api/invoices, GET, DELETE /api/invoices/:id,
\* PUT /api/invoices/:id/status and GET /api/clients/:id/invoices.
C19_UserIsolation ==
    (accSent.q.table = "invoices" \/ accSent.q.op = "invoices")
        => \A row \in accSent.rows : row.user_id = accSent.q.user

C20_UniqueUsers ==
    \A u, v \in users :
        u.id # v.id => (u.username # v.username /\ u.email # v.email)

C20_Taken(q) == \E u \in users : u.username = q.username \/ u.email = q.email

C20_TakenStep(r) ==
    (reg[r].pc = "select" /\ reg'[r].pc # "select" /\ C20_Taken(reg[r]))
        => /\ regSent' = RegResponse(r, reg[r], UserAlreadyExists)
           /\ reg'[r].pc = "idle"
           /\ users' = users

C21_OmittedBillFromAccepted ==
    (/\ sent.slot # 0
     /\ sent.q.billFromId = 0 /\ sent.q.clientId \in clients /\ sent.q.nItems >= 1
     /\ sent.q.number = NoNumber /\ sent.q.err = "none")
        => /\ sent.resp = Created
           /\ \E row \in Committed : row.id = sent.q.id /\ row.bill_from_id = 0

\* the number the sequence gives after the stored numbers nums of month c,
\* when they all have the generator's format: greatest suffix plus one
C22_Successor(nums, c) ==
    LET S == {i \in 1..MaxSeqInvoiceId : FmtNumber(c, i) \in nums}
    IN  FmtNumber(c, IF S = {} THEN 1
                     ELSE (CHOOSE i \in S : \A j \in S : j <= i) + 1)

C22_WellFormed(nums, c) == nums \subseteq {FmtNumber(c, i) : i \in 1..MaxSeqInvoiceId}

\* the requester's own other invoice numbers of month c
C22_OwnWithPrefix(c) ==
    {row.invoice_number :
        row \in {x \in Committed : x.id # sent.q.id /\ x.user_id = sent.q.user
                                    /\ StartsWith(x.invoice_number, Prefix(c))}}

C23_OneRowPerNumber ==
    \A a, b \in invoices : a.invoice_number = b.invoice_number => a.id = b.id

C23_RaceResolvedByStore ==
    /\ C23_OneRowPerNumber
    /\ (Responded /\ AutoNumbered /\ sent.q.err = "unique")
          => /\ sent.resp = CreateFailed
             /\ WroteNothing
             /\ sent.q.id = 0
             /\ \E row \in invoices : row.invoice_number = sent.q.invNumber

\* both requests generated 0001 for January; one committed, the other failed
C23_Witness ==
    /\ Responded /\ AutoNumbered /\ sent.q.err = "unique"
    /\ sent.q.invNumber = FmtNumber(1, 1)
    /\ \E row \in Committed : row.invoice_number = FmtNumber(1, 1)

\* the committed numbers under the current month's prefix
C24_Stored == {n \in CommittedNumbers : StartsWith(n, Prefix(now))}

C24_Suffix(n) == ParseInt(LastSegment(n)).val

\* C24: when every stored number of the current month ends in an integer, the
\* number the descending string order selects has the numerically greatest
\* suffix, and the number generated from it is not in the store.
C24_StringOrderFindsGreatest ==
    (C24_Stored # {} /\ \A n \in C24_Stored : ~ParseInt(LastSegment(n)).nan)
        => /\ \A n \in C24_Stored :
                 C24_Suffix(n) <= C24_Suffix(LastInvoice(C24_Stored, now))
           /\ GeneratedNumber(C24_Stored, now) \notin C24_Stored

C25_ItemsHaveInvoice ==
    \A it \in items : \E row \in invoices : row.id = it.invoice_id

C25_DeleteTakesItems ==
    (/\ acc.pc = "run" /\ acc'.pc = "idle"
     /\ acc.table = "invoices" /\ acc.op = "delete"
     /\ accSent'.resp = Found)
        => /\ \A row \in invoices' : row.id # acc.id
           /\ \A it \in items' : it.invoice_id # acc.id
           /\ \A it \in items : it.invoice_id # acc.id => it \in items'

\* C25: every invoice_items row references an invoice row, in every state
\* that creations and deletions reach; a DELETE /api/invoices/:id answered
\* 200 removes the invoice and all its items, and no other item.
C25_NoOrphanItems == []C25_ItemsHaveInvoice /\ [][C25_DeleteTakesItems]_vars

\* an invoice that had been committed with its items has been deleted
C25_Witness ==
    /\ accSent.q.table = "invoices" /\ accSent.q.op = "delete"
    /\ accSent.resp = Found
    /\ accSent.rows # {}
    /\ nextId > 1
    /\ \A it \in items : it.invoice_id \notin {row.id : row \in accSent.rows}

\* a PUT /api/invoices/:id/status runs its statement
C26_StatusStep ==
    acc.pc = "run" /\ acc'.pc = "idle" /\ acc.table = "invoices" /\ acc.op = "update"

C26_Owned == \E row \in Committed : row.id = acc.id /\ row.user_id = acc.user

C27_NotFoundChangesNothing ==
    (pdSent.resp = PdNotFound /\ pdSent.q.hadDefault)
        => Defaults(payments, pdSent.q.scope) # {}

\* every committed invoice row points at a client row
C28_ClientExists == \A row \in Committed : row.client_id \in clients

\* a creation whose insert met the missing client is answered 500 and its
\* transaction left nothing
C28_LateCreateFails ==
    (Responded /\ sent.q.err = "foreign key") => (sent.resp = CreateFailed /\ WroteNothing)

\* request r runs Client.destroy
C28_ClientDestroy(r) ==
    del[r].pc = "destroy" /\ del[r].kind = "client" /\ del'[r].pc = "idle"

\* C28: every committed invoice's client_id references an existing client,
\* also when a client delete interleaves with an invoice creation for that
\* client: a delete that meets a committed invoice of the client is refused
\* and removes nothing, and a creation that meets the deleted client fails
\* and leaves no rows.
C28_DeleteOrCreateFails ==
    /\ [](C28_ClientExists /\ C28_LateCreateFails)
    /\ [][\A r \in DelReqs :
            (C28_ClientDestroy(r) /\ \E row \in Committed : row.client_id = del[r].id)
                => /\ delSent'.resp = DeleteClientFailed
                   /\ clients' = clients /\ invoices' = invoices /\ items' = items]_vars

\* the client's delete counted no invoice, the creation committed, and the
\* delete was answered as done: the created invoice and its items are gone
C28_CreatedThenGone ==
    /\ delSent.resp = Deleted /\ delSent.q.kind = "client"
    /\ sent.resp = Created /\ sent.q.clientId = delSent.q.id
    /\ \A row \in invoices : row.id # sent.q.id
    /\ \A it \in items : it.invoice_id # sent.q.id

\* the answered request carried an explicit number that a committed invoice
\* of another user holds, and named an existing client and an address of
\* its own (or none)
C30_UsedByOtherUser ==
    /\ Responded /\ sent.q.number # NoNumber
    /\ \E row \in Committed :
          /\ row.invoice_number = sent.q.number
          /\ row.user_id # sent.q.user /\ row.id # sent.q.id
    /\ sent.q.clientId \in clients /\ ~NotOwnAddress(sent.q)

\* C30: a creation whose explicit invoiceNumber is already used by an invoice
\* of a different user is answered 409 DuplicateInvoiceNumber, as a same-user
\* duplicate is, and adds no invoice or item row.
C30_CrossUserDuplicateIs409 ==
    C30_UsedByOtherUser => (sent.resp = DuplicateInvoiceNumber /\ WroteNothing)

\* what the handler does with it: the insert meets the unique index and the
\* catch answers 500; no row is added
C30_CrossUserDuplicateIs500 ==
    C30_UsedByOtherUser => (sent.resp = CreateFailed /\ WroteNothing)

====
